---- MODULE Spec2Model ----
(***************************************************************************)
(* Snap2Print (pkj26/papar): the image-job list of src/App.tsx, its        *)
(* sequential Process All / Remix runs, per-job Retry, cropping, and the   *)
(* Printable-HTML / Word export templating.                                *)
(*                                                                         *)
(* Handlers run to completion on the single browser thread; an `await`     *)
(* splits a handler into steps.  A handler reads the `jobs` array of the   *)
(* render it was created in (a closure), while setJobs(prev => ...)        *)
(* updates the current array.                                              *)
(*                                                                         *)
(* Spec is the job list with a request to the AI service as one pending    *)
(* call, in a build that has an API key; SpecLive adds the fairness of     *)
(* settlements and timers; SpecReload adds the header settings and the     *)
(* page reload; SpecExport runs the export handlers on any job list;       *)
(* SpecService traces one generateHtmlFromImage call step by step in any   *)
(* build; SpecPreview is the preview editor component.                     *)
(***************************************************************************)
EXTENDS Integers, Sequences, FiniteSets, TLC

\* ---------------------------------------------------------------- bounds
MaxJobs == 2          \* jobs ever added (ids 1..MaxJobs are handed out once)
MaxInflight == 2      \* requests to the AI service pending at the same time
MaxCrops == 1         \* crops saved per job (file versions 0..MaxCrops)
MaxExportJobs == 3    \* length of the job list handed to the export handlers

\* ------------------------------------------------------------- constants
IDLE == "IDLE"
PROCESSING == "PROCESSING"
COMPLETED == "COMPLETED"
ERROR == "ERROR"
JobStatus == {IDLE, PROCESSING, COMPLETED, ERROR}

Undefined == "<undefined>"
ProcessDelayMs == 500
RemixDelayMs == 1000
ProcessingFailed == "Processing failed"

\* what the opaque AI call can hand back: generateHtmlFromImage returns the
\* trimmed response text, which may be empty; a rejection carries a message,
\* which may be empty
GeneratedHtml == {"", "<p>a</p>"}
RemixedHtml == {"<p>a</p>", "<p>b</p>"}
ThrownMessages == {"", "Too many requests (429). Please Retry."}

VARIABLES jobs, isProcessing, isRemixing, croppingJobId, cropPending,
          nextId, inflight, batch, runLog, last,
          headerConfig, localStorage, download,
          env, call, preview, onSave

vars == <<jobs, isProcessing, isRemixing, croppingJobId, cropPending,
          nextId, inflight, batch, runLog, last, headerConfig, localStorage,
          download, env, call, preview, onSave>>

exportVars == <<headerConfig, localStorage, download>>

\* the build's environment variables and the generateHtmlFromImage call that
\* is traced step by step (see the service section)
serviceVars == <<env, call>>

\* the preview editor that is open, and the calls of its onSave prop
previewVars == <<preview, onSave>>

\* ------------------------------------------------------------- helpers
Truthy(s) == s # Undefined /\ s # ""

JobIds(js) == {js[i].id : i \in 1..Len(js)}

FindJob(js, id) == CHOOSE i \in 1..Len(js) : js[i].id = id

HasJob(js, id) == \E i \in 1..Len(js) : js[i].id = id

NewJob(id) ==
  [id |-> id, file |-> 0, status |-> IDLE, resultHtml |-> Undefined, error |-> Undefined]

\* a run of handleProcessAll / handleRemixAll between two awaits: the jobs it
\* iterates over (the fields of the closed-over job objects it reads), the
\* ids of the closed-over `jobs` array, the loop position, and the pending
\* setTimeout
NoBatch == [kind |-> "none", list |-> <<>>, ids |-> {}, idx |-> 0, pc |-> "idle", delay |-> 0]

\* what the previous step was, when it settled a request: the request and
\* the html it resolved with or the message it was rejected with
NoEvent == [op |-> "none", kind |-> "none", job |-> 0, owner |-> "none", result |-> ""]

Event(op, r, result) ==
  [op |-> op, kind |-> r.kind, job |-> r.job, owner |-> r.owner, result |-> result]

\* the crop overlay (fixed inset-0 z-50) is rendered while the job being
\* cropped is in the list; it covers every button of the page
croppingJob == croppingJobId # 0 /\ HasJob(jobs, croppingJobId)

PageClickable == ~croppingJob

FreeSlots == (1..MaxInflight) \ {r.slot : r \in inflight}

\* generateHtmlFromImage(job.file) or remixHtmlContent(job.resultHtml)
Request(kind, owner, job) ==
  [slot |-> CHOOSE s \in FreeSlots : \A t \in FreeSlots : s <= t,
   kind |-> kind, owner |-> owner, job |-> job.id,
   file |-> IF kind = "generate" THEN job.file ELSE 0,
   html |-> IF kind = "remix" THEN job.resultHtml ELSE Undefined]

\* the part of a job object a run reads later
Captured(kind, j) ==
  [id |-> j.id,
   file |-> IF kind = "generate" THEN j.file ELSE 0,
   resultHtml |-> IF kind = "remix" THEN j.resultHtml ELSE Undefined]

CapturedAll(kind, js) == [i \in 1..Len(js) |-> Captured(kind, js[i])]

SeqIds(list) == [i \in 1..Len(list) |-> list[i].id]

\* ------------------------------------------------------------- job updates
SetProcessing(js, id) ==
  [i \in 1..Len(js) |->
     IF js[i].id = id THEN [js[i] EXCEPT !.status = PROCESSING, !.error = Undefined]
     ELSE js[i]]

SetCompleted(js, id, html) ==
  [i \in 1..Len(js) |->
     IF js[i].id = id THEN [js[i] EXCEPT !.status = COMPLETED, !.resultHtml = html]
     ELSE js[i]]

\* mutants of SetError: the catch marking every job, and the catch without
\* its fallback message
SetErrorEveryJob(js, id, message) ==
  [i \in 1..Len(js) |->
     [js[i] EXCEPT !.status = ERROR,
                   !.error = IF message = "" THEN ProcessingFailed ELSE message]]

SetErrorRawMessage(js, id, message) ==
  [i \in 1..Len(js) |->
     IF js[i].id = id THEN [js[i] EXCEPT !.status = ERROR, !.error = message]
     ELSE js[i]]

SetError(js, id, message) ==
  [i \in 1..Len(js) |->
     IF js[i].id = id
     THEN [js[i] EXCEPT !.status = ERROR,
                        !.error = IF message = "" THEN ProcessingFailed ELSE message]
     ELSE js[i]]

SetRemixing(js, id) ==
  [i \in 1..Len(js) |->
     IF js[i].id = id THEN [js[i] EXCEPT !.status = PROCESSING] ELSE js[i]]

\* mutant of SetRemixFailed: the catch only logs
SetRemixFailedOnlyLogs(js, id) == js

\* mutant of SetRemixFailed: the catch of processJob copied into the remix loop
SetRemixFailedAsError(js, id) ==
  [i \in 1..Len(js) |->
     IF js[i].id = id
     THEN [js[i] EXCEPT !.status = ERROR, !.error = ProcessingFailed]
     ELSE js[i]]

SetRemixFailed(js, id) ==
  [i \in 1..Len(js) |->
     IF js[i].id = id THEN [js[i] EXCEPT !.status = COMPLETED] ELSE js[i]]

SetCropped(js, id) ==
  [i \in 1..Len(js) |->
     IF js[i].id = id
     THEN [js[i] EXCEPT !.file = js[i].file + 1, !.status = IDLE,
                        !.resultHtml = Undefined, !.error = Undefined]
     ELSE js[i]]

\* ------------------------------------------------------------- batches
\* mutant of NeedsProcessing: failed jobs are not picked up again
NeedsProcessingIdleOnly(j) == j.status = IDLE

NeedsProcessing(j) == j.status = IDLE \/ j.status = ERROR

JobsToProcess(js) == SelectSeq(js, NeedsProcessing)

\* mutant of IsExportable: the `&& j.resultHtml` test is missing
IsCompletedOnly(j) == j.status = COMPLETED

IsExportable(j) == j.status = COMPLETED /\ Truthy(j.resultHtml)

CompletedJobs(js) == SelectSeq(js, IsExportable)

\* `const currentJob = jobs.find(j => j.id === job.id); if (!currentJob) continue;`
\* where `jobs` is the array the handler closed over
StillExists(ids, job) == job.id \in ids

RECURSIVE NextIndex(_, _, _)
NextIndex(list, ids, i) ==
  IF i > Len(list) THEN i
  ELSE IF StillExists(ids, list[i]) THEN i
  ELSE NextIndex(list, ids, i + 1)

\* ------------------------------------------------------------- Init
DEFAULT_HEADER_CONFIG ==
  [logoText |-> "CA CATest",
   logoSubText |-> "Best Test Series for CA Exams",
   courseName |-> "CA Foundation Course",
   seriesName |-> "(Mock Test Paper - Series : 1-2)",
   marksTime |-> "MAXIMUM MARKS: 100     TIMING: 3 1/4 Hours",
   subjectTitle |-> "PAPER 1 : ACCOUNTING",
   instruction1 |-> "Question No. 1 is compulsory.",
   instruction2 |-> "Candidates are required to answer any four questions from the remaining five questions.",
   fontFamily |-> "Arial, sans-serif"]

\* the environment variables getApiKey looks at, in its order; a variable
\* that is not set (or whose env object does not exist) is Undefined
EnvNames ==
  <<"process.env.API_KEY", "process.env.VITE_API_KEY",
    "process.env.REACT_APP_API_KEY", "process.env.NEXT_PUBLIC_API_KEY",
    "import.meta.env.API_KEY", "import.meta.env.VITE_API_KEY",
    "import.meta.env.NEXT_PUBLIC_API_KEY">>

ApiKey == "AIza-key"

\* a Vite build with VITE_API_KEY set, as the app's own error message advises
DeployedEnv ==
  [n \in 1..Len(EnvNames) |->
     IF EnvNames[n] = "import.meta.env.VITE_API_KEY" THEN ApiKey ELSE Undefined]

\* no generateHtmlFromImage call is traced
NoCall ==
  [pc |-> "idle", job |-> 0, apiKey |-> Undefined, fileReads |-> 0, requests |-> 0,
   optimized |-> FALSE, source |-> <<0, 0>>, sent |-> <<0, 0>>,
   underlying |-> Undefined, outcome |-> Undefined]

\* useState({ top: 10, right: 10, bottom: 10, left: 10 })
DefaultMargins == [top |-> 10, right |-> 10, bottom |-> 10, left |-> 10]

\* no preview editor is mounted
NoPreview ==
  [open |-> FALSE, jobId |-> 0, content |-> Undefined, margins |-> DefaultMargins,
   isSaving |-> FALSE]

\* onSave was never called; id and newHtml are the arguments of the call
\* the previous step made, if it made one
NoSaves == [calls |-> 0, id |-> 0, newHtml |-> Undefined]

\* localStorage.getItem('snap2print_header_config') of a browser that never
\* stored it
NoItem == [none |-> TRUE]

NoDownload == [handler |-> "none", produced |-> FALSE, name |-> "", doc |-> <<>>]

Init ==
  /\ jobs = <<>>
  /\ isProcessing = FALSE
  /\ isRemixing = FALSE
  /\ croppingJobId = 0
  /\ cropPending = 0
  /\ nextId = 1
  /\ inflight = {}
  /\ batch = NoBatch
  /\ runLog = <<>>
  /\ last = NoEvent
  /\ headerConfig = DEFAULT_HEADER_CONFIG
  /\ localStorage = NoItem
  /\ download = NoDownload
  /\ env = DeployedEnv
  /\ call = NoCall
  /\ preview = NoPreview
  /\ onSave = NoSaves

\* ------------------------------------------------------------- actions
\* addFiles: paste (window listener) or file input
addFiles(n) ==
  /\ n >= 1
  /\ nextId + n - 1 <= MaxJobs
  /\ jobs' = jobs \o [k \in 1..n |-> NewJob(nextId + k - 1)]
  /\ nextId' = nextId + n
  /\ last' = NoEvent
  /\ UNCHANGED <<isProcessing, isRemixing, croppingJobId, cropPending,
                 inflight, batch, runLog, exportVars, serviceVars, previewVars>>

handleRemoveJob(id) ==
  /\ PageClickable
  /\ HasJob(jobs, id)
  /\ jobs' = SelectSeq(jobs, LAMBDA j : j.id # id)
  /\ last' = NoEvent
  /\ UNCHANGED <<isProcessing, isRemixing, croppingJobId, cropPending,
                 nextId, inflight, batch, runLog, exportVars, serviceVars, previewVars>>

handleStartCrop(id) ==
  /\ PageClickable
  /\ HasJob(jobs, id)
  /\ jobs[FindJob(jobs, id)].status = IDLE
  /\ croppingJobId' = id
  /\ last' = NoEvent
  /\ UNCHANGED <<jobs, isProcessing, isRemixing, cropPending,
                 nextId, inflight, batch, runLog, exportVars, serviceVars, previewVars>>

\* CropModal: the X / Cancel buttons
CropModalClose ==
  /\ croppingJob
  /\ croppingJobId' = 0
  /\ last' = NoEvent
  /\ UNCHANGED <<jobs, isProcessing, isRemixing, cropPending,
                 nextId, inflight, batch, runLog, exportVars, serviceVars, previewVars>>

\* CropModal.handleSave, up to its await: Done without a completed crop
\* closes the modal, otherwise getCroppedImg starts and the onSave of this
\* render (handleCropSave with this render's croppingJobId) is kept
CropModalSave(hasCrop) ==
  /\ croppingJob
  /\ cropPending = 0
  /\ jobs[FindJob(jobs, croppingJobId)].file < MaxCrops
  /\ IF hasCrop
     THEN cropPending' = croppingJobId /\ UNCHANGED croppingJobId
     ELSE croppingJobId' = 0 /\ UNCHANGED cropPending
  /\ last' = NoEvent
  /\ UNCHANGED <<jobs, isProcessing, isRemixing,
                 nextId, inflight, batch, runLog, exportVars, serviceVars, previewVars>>

\* handleCropSave(croppedFile) as closed over `capturedId`
handleCropSave(capturedId) ==
  /\ IF capturedId = 0
     THEN UNCHANGED <<jobs, croppingJobId>>
     ELSE /\ jobs' = SetCropped(jobs, capturedId)
          /\ croppingJobId' = 0
  /\ UNCHANGED <<isProcessing, isRemixing, nextId, inflight, batch, runLog, exportVars, serviceVars, previewVars>>

\* the previous step was handleCropSave, called by the crop modal that was
\* opened for job `id`
CropEvent(id) ==
  [op |-> "cropSaved", kind |-> "crop", job |-> id, owner |-> "none", result |-> ""]

\* getCroppedImg resolved: onSave(croppedFile)
CropResolved ==
  /\ cropPending # 0
  /\ handleCropSave(cropPending)
  /\ cropPending' = 0
  /\ last' = CropEvent(cropPending)

\* getCroppedImg rejected: logged, nothing saved
CropRejected ==
  /\ cropPending # 0
  /\ cropPending' = 0
  /\ last' = NoEvent
  /\ UNCHANGED <<jobs, isProcessing, isRemixing, croppingJobId,
                 nextId, inflight, batch, runLog, exportVars, serviceVars, previewVars>>

\* processJob(job) up to its await: status PROCESSING, request issued
processJobStart(job, owner) ==
  /\ FreeSlots # {}
  /\ jobs' = SetProcessing(jobs, job.id)
  /\ inflight' = inflight \cup {Request("generate", owner, job)}

\* Retry button of a job shown in ERROR.  MaxInflight bounds the clicks and
\* never a run: while a run sleeps, a Retry is taken only if it leaves a slot
\* for the run's next request
handleRetryJob(id) ==
  /\ PageClickable
  /\ HasJob(jobs, id)
  /\ jobs[FindJob(jobs, id)].status = ERROR
  /\ batch.pc = "delay" => Cardinality(FreeSlots) >= 2
  /\ processJobStart(jobs[FindJob(jobs, id)], "retry")
  /\ last' = NoEvent
  /\ UNCHANGED <<isProcessing, isRemixing, croppingJobId, cropPending,
                 nextId, batch, runLog, exportVars, serviceVars, previewVars>>

\* mutant of ProcessLoop: the loop is left without setIsProcessing(false)
ProcessLoopFlagNotReset(list, ids, from, log) ==
  LET k == NextIndex(list, ids, from)
  IN IF k > Len(list)
     THEN /\ isProcessing' = TRUE
          /\ batch' = NoBatch
          /\ runLog' = <<>>
          /\ UNCHANGED <<jobs, inflight>>
     ELSE /\ processJobStart(list[k], "batch")
          /\ isProcessing' = TRUE
          /\ batch' = [kind |-> "process", list |-> list, ids |-> ids, idx |-> k,
                       pc |-> "await", delay |-> 0]
          /\ runLog' = Append(log, list[k].id)

\* the for-loop of handleProcessAll from position `from` of jobsToProcess:
\* skip, issue the next request, or leave the loop
ProcessLoop(list, ids, from, log) ==
  LET k == NextIndex(list, ids, from)
  IN IF k > Len(list)
     THEN /\ isProcessing' = FALSE
          /\ batch' = NoBatch
          /\ runLog' = <<>>
          /\ UNCHANGED <<jobs, inflight>>
     ELSE /\ processJobStart(list[k], "batch")
          /\ isProcessing' = TRUE
          /\ batch' = [kind |-> "process", list |-> list, ids |-> ids, idx |-> k,
                       pc |-> "await", delay |-> 0]
          /\ runLog' = Append(log, list[k].id)

\* the previous step was a click on a run's button, or the end of a run
RunEvent(op, kind) ==
  [op |-> op, kind |-> kind, job |-> 0, owner |-> "batch", result |-> ""]

\* "Convert to HTML" button
handleProcessAll ==
  /\ PageClickable
  /\ jobs # <<>>
  /\ ~isProcessing /\ ~isRemixing
  /\ \E i \in 1..Len(jobs) : jobs[i].status # COMPLETED
  /\ ProcessLoop(CapturedAll("generate", JobsToProcess(jobs)), JobIds(jobs), 1, <<>>)
  /\ last' = RunEvent("handleProcessAll", "process")
  /\ UNCHANGED <<isRemixing, croppingJobId, cropPending, nextId, exportVars, serviceVars, previewVars>>

\* the for-loop of handleRemixAll from position `from` of completedJobs
RemixLoop(list, ids, from, log) ==
  IF from > Len(list)
  THEN /\ isRemixing' = FALSE
       /\ batch' = NoBatch
       /\ runLog' = <<>>
       /\ UNCHANGED <<jobs, inflight>>
  ELSE /\ FreeSlots # {}
       /\ jobs' = SetRemixing(jobs, list[from].id)
       /\ inflight' = inflight \cup {Request("remix", "batch", list[from])}
       /\ isRemixing' = TRUE
       /\ batch' = [kind |-> "remix", list |-> list, ids |-> ids, idx |-> from,
                    pc |-> "await", delay |-> 0]
       /\ runLog' = Append(log, list[from].id)

\* "Remix" button
handleRemixAll ==
  /\ PageClickable
  /\ jobs # <<>>
  /\ ~isProcessing /\ ~isRemixing
  /\ \E i \in 1..Len(jobs) : jobs[i].status = COMPLETED
  /\ RemixLoop(CapturedAll("remix", CompletedJobs(jobs)), JobIds(jobs), 1, <<>>)
  /\ last' = RunEvent("handleRemixAll", "remix")
  /\ UNCHANGED <<isProcessing, croppingJobId, cropPending, nextId, exportVars, serviceVars, previewVars>>

\* mutant of AfterSettle: the loop goes on without its setTimeout
AfterSettleNoDelay(r, ms) ==
  IF r.owner = "batch"
  THEN batch' = [batch EXCEPT !.pc = "delay", !.delay = 0]
  ELSE UNCHANGED batch

\* after a request of a run settled the run sleeps for `ms`
AfterSettle(r, ms) ==
  IF r.owner = "batch"
  THEN batch' = [batch EXCEPT !.pc = "delay", !.delay = ms]
  ELSE UNCHANGED batch

\* generateHtmlFromImage resolved with `html`: rest of processJob's try
generateResolved(r, html) ==
  /\ r \in inflight /\ r.kind = "generate"
  /\ jobs' = SetCompleted(jobs, r.job, html)
  /\ inflight' = inflight \ {r}
  /\ AfterSettle(r, ProcessDelayMs)
  /\ last' = Event("resolved", r, html)
  /\ UNCHANGED <<isProcessing, isRemixing, croppingJobId, cropPending,
                 nextId, runLog, exportVars, serviceVars, previewVars>>

\* generateHtmlFromImage rejected with `message`: processJob's catch
generateRejected(r, message) ==
  /\ r \in inflight /\ r.kind = "generate"
  /\ jobs' = SetError(jobs, r.job, message)
  /\ inflight' = inflight \ {r}
  /\ AfterSettle(r, ProcessDelayMs)
  /\ last' = Event("rejected", r, message)
  /\ UNCHANGED <<isProcessing, isRemixing, croppingJobId, cropPending,
                 nextId, runLog, exportVars, serviceVars, previewVars>>

\* remixHtmlContent resolved with `html`
remixResolved(r, html) ==
  /\ r \in inflight /\ r.kind = "remix"
  /\ jobs' = SetCompleted(jobs, r.job, html)
  /\ inflight' = inflight \ {r}
  /\ AfterSettle(r, RemixDelayMs)
  /\ last' = Event("resolved", r, html)
  /\ UNCHANGED <<isProcessing, isRemixing, croppingJobId, cropPending,
                 nextId, runLog, exportVars, serviceVars, previewVars>>

\* remixHtmlContent rejected: the catch of handleRemixAll
remixRejected(r) ==
  /\ r \in inflight /\ r.kind = "remix"
  /\ jobs' = SetRemixFailed(jobs, r.job)
  /\ inflight' = inflight \ {r}
  /\ AfterSettle(r, RemixDelayMs)
  /\ last' = Event("rejected", r, "")
  /\ UNCHANGED <<isProcessing, isRemixing, croppingJobId, cropPending,
                 nextId, runLog, exportVars, serviceVars, previewVars>>

\* the setTimeout of a run fired: next iteration of its loop
delayElapsed ==
  /\ batch.pc = "delay"
  /\ IF batch.kind = "process"
     THEN /\ ProcessLoop(batch.list, batch.ids, batch.idx + 1, runLog)
          /\ UNCHANGED isRemixing
     ELSE /\ RemixLoop(batch.list, batch.ids, batch.idx + 1, runLog)
          /\ UNCHANGED isProcessing
  /\ last' = IF batch' = NoBatch THEN RunEvent("runEnded", batch.kind) ELSE NoEvent
  /\ UNCHANGED <<croppingJobId, cropPending, nextId, exportVars, serviceVars, previewVars>>

\* ------------------------------------------------------------- exports
\* An exported document is the sequence of its template pieces.
NoConfig == [none |-> TRUE]

Piece(tag, html, config) == [tag |-> tag, html |-> html, config |-> config]

Tag(tag) == Piece(tag, "", NoConfig)

\* generateHeaderHtml(isWord): the header block of the current headerConfig,
\* with the table layout for Word and the flexbox layout otherwise
generateHeaderHtml(isWord) ==
  Piece(IF isWord THEN "header-word" ELSE "header-web", "", headerConfig)

RECURSIVE Join(_)
Join(parts) == IF parts = <<>> THEN <<>> ELSE Head(parts) \o Join(Tail(parts))

\* mutant of PrintablePage: the header on every page
PrintablePageHeaderOnEach(job, index, headerHtml) ==
  <<Tag("page-wrapper"), headerHtml,
    Piece("resultHtml", job.resultHtml, NoConfig), Tag("/page-wrapper"),
    Tag("page-break")>>

\* one element of completedJobs.map(...) in handleDownloadAll; index from 0
PrintablePage(job, index, headerHtml) ==
  <<Tag("page-wrapper")>>
  \o (IF index = 0 THEN <<headerHtml>> ELSE <<>>)
  \o <<Piece("resultHtml", job.resultHtml, NoConfig), Tag("/page-wrapper"),
       Tag("page-break")>>

\* mutant of WordSection: a page break after the last section too
WordSectionBreakAfterEach(job, index, count, headerHtml) ==
  <<Tag("WordSection")>>
  \o (IF index = 0 THEN <<headerHtml>> ELSE <<>>)
  \o <<Piece("resultHtml", job.resultHtml, NoConfig), Tag("/WordSection"),
       Tag("wordPageBreak")>>

\* one element of completedJobs.map(...) in handleDownloadWord; index from 0
WordSection(job, index, count, headerHtml) ==
  <<Tag("WordSection")>>
  \o (IF index = 0 THEN <<headerHtml>> ELSE <<>>)
  \o <<Piece("resultHtml", job.resultHtml, NoConfig), Tag("/WordSection")>>
  \o (IF index < count - 1 THEN <<Tag("wordPageBreak")>> ELSE <<>>)

PrintableHtml(completedJobs) ==
  <<Piece("html-head", headerConfig.subjectTitle, NoConfig)>>
  \o Join([i \in 1..Len(completedJobs) |->
             PrintablePage(completedJobs[i], i - 1, generateHeaderHtml(FALSE))])
  \o <<Tag("print-script")>>

WordHtml(completedJobs) ==
  <<Piece("preHtml", headerConfig.fontFamily, NoConfig)>>
  \o Join([i \in 1..Len(completedJobs) |->
             WordSection(completedJobs[i], i - 1, Len(completedJobs),
                         generateHeaderHtml(TRUE))])
  \o <<Tag("postHtml")>>

\* "Printable HTML" button (enabled while some job is COMPLETED)
handleDownloadAll ==
  /\ PageClickable
  /\ \E i \in 1..Len(jobs) : jobs[i].status = COMPLETED
  /\ LET completedJobs == CompletedJobs(jobs)
     IN download' =
          IF Len(completedJobs) = 0
          THEN [handler |-> "handleDownloadAll", produced |-> FALSE, name |-> "",
                doc |-> <<>>]
          ELSE [handler |-> "handleDownloadAll", produced |-> TRUE,
                name |-> "printable-pages.html", doc |-> PrintableHtml(completedJobs)]
  /\ UNCHANGED <<jobs, isProcessing, isRemixing, croppingJobId, cropPending,
                 nextId, inflight, batch, runLog, last, headerConfig, localStorage,
                 serviceVars, previewVars>>

\* "Word File" button (enabled while some job is COMPLETED)
handleDownloadWord ==
  /\ PageClickable
  /\ \E i \in 1..Len(jobs) : jobs[i].status = COMPLETED
  /\ LET completedJobs == CompletedJobs(jobs)
     IN download' =
          IF Len(completedJobs) = 0
          THEN [handler |-> "handleDownloadWord", produced |-> FALSE, name |-> "",
                doc |-> <<>>]
          ELSE [handler |-> "handleDownloadWord", produced |-> TRUE,
                name |-> "document.doc", doc |-> WordHtml(completedJobs)]
  /\ UNCHANGED <<jobs, isProcessing, isRemixing, croppingJobId, cropPending,
                 nextId, inflight, batch, runLog, last, headerConfig, localStorage,
                 serviceVars, previewVars>>

\* the header settings inputs
SubjectTitles == {"PAPER 1 : ACCOUNTING", "PAPER 2 : LAW"}
AVAILABLE_FONTS == {"Arial, sans-serif", "Verdana, Geneva, sans-serif"}

handleConfigChange(key, value) ==
  /\ PageClickable
  /\ jobs # <<>>
  /\ headerConfig' = [headerConfig EXCEPT ![key] = value]
  /\ localStorage' = [headerConfig EXCEPT ![key] = value]
  /\ UNCHANGED <<jobs, isProcessing, isRemixing, croppingJobId, cropPending,
                 nextId, inflight, batch, runLog, last, download, serviceVars, previewVars>>

Next ==
  \/ \E n \in 1..2 : addFiles(n)
  \/ \E id \in 1..MaxJobs : handleRemoveJob(id)
  \/ \E id \in 1..MaxJobs : handleStartCrop(id)
  \/ CropModalClose
  \/ \E hasCrop \in BOOLEAN : CropModalSave(hasCrop)
  \/ CropResolved
  \/ CropRejected
  \/ \E id \in 1..MaxJobs : handleRetryJob(id)
  \/ handleProcessAll
  \/ handleRemixAll
  \/ \E r \in inflight, html \in GeneratedHtml : generateResolved(r, html)
  \/ \E r \in inflight, message \in ThrownMessages : generateRejected(r, message)
  \/ \E r \in inflight, html \in RemixedHtml : remixResolved(r, html)
  \/ \E r \in inflight : remixRejected(r)
  \/ delayElapsed

Spec == Init /\ [][Next]_vars

\* ------------------------------------------------------------- export runs
\* The export handlers are functions of the job list and the header settings
\* of the render they are clicked in.  SpecExport starts from any job list of
\* up to MaxExportJobs jobs in states the job operations above produce (a
\* job that is IDLE has no resultHtml: only handleCropSave sets IDLE, and it
\* clears resultHtml) and clicks the export buttons and header settings.
JobShapes ==
  {[status |-> IDLE, resultHtml |-> Undefined]}
  \cup [status : {PROCESSING, COMPLETED, ERROR},
        resultHtml : {Undefined} \cup GeneratedHtml \cup RemixedHtml]

ShapedJob(id, shape) ==
  [id |-> id, file |-> 0, status |-> shape.status, resultHtml |-> shape.resultHtml,
   error |-> IF shape.status = ERROR THEN ProcessingFailed ELSE Undefined]

InitExport ==
  /\ \E n \in 0..MaxExportJobs :
       \E shapes \in [1..n -> JobShapes] :
         /\ jobs = [i \in 1..n |-> ShapedJob(i, shapes[i])]
         /\ nextId = n + 1
  /\ isProcessing = FALSE
  /\ isRemixing = FALSE
  /\ croppingJobId = 0
  /\ cropPending = 0
  /\ inflight = {}
  /\ batch = NoBatch
  /\ runLog = <<>>
  /\ last = NoEvent
  /\ headerConfig = DEFAULT_HEADER_CONFIG
  /\ localStorage = NoItem
  /\ download = NoDownload
  /\ env = DeployedEnv
  /\ call = NoCall
  /\ preview = NoPreview
  /\ onSave = NoSaves

NextExport ==
  \/ handleDownloadAll
  \/ handleDownloadWord
  \/ \E value \in SubjectTitles : handleConfigChange("subjectTitle", value)
  \/ \E value \in AVAILABLE_FONTS : handleConfigChange("fontFamily", value)

SpecExport == InitExport /\ [][NextExport]_vars

\* ------------------------------------------------------------- properties
JobOf(js, id) == js[FindJob(js, id)]

RunRequests == {r \in inflight : r.owner = "batch"}

\* the step in which a Process All run issues the request of its next job
ProcessRunIssues ==
  /\ batch'.kind = "process" /\ batch'.pc = "await"
  /\ batch.pc # "await"

ProcessRunStarts == batch.kind = "none" /\ batch'.kind = "process"

ProcessRunEnds == batch.kind = "process" /\ batch'.kind = "none"

ListedTransitions ==
  {<<IDLE, PROCESSING>>, <<PROCESSING, COMPLETED>>, <<PROCESSING, ERROR>>,
   <<ERROR, PROCESSING>>}

\* C1 as stated: every change of a job's status is IDLE->PROCESSING,
\* PROCESSING->COMPLETED, PROCESSING->ERROR or ERROR->PROCESSING.
C1_OnlyListedTransitions ==
  [][\A id \in JobIds(jobs) \cap JobIds(jobs') :
       JobOf(jobs, id).status # JobOf(jobs', id).status
         => <<JobOf(jobs, id).status, JobOf(jobs', id).status>> \in ListedTransitions]_vars

\* C1 amended: a job's status changes only through its own request or crop.
\* It becomes PROCESSING only in a step that issues a request for it,
\* COMPLETED only in a step that settles a request for it (a resolved
\* request, or a rejected remix), ERROR only in a step that rejects a
\* generate request for it, and IDLE only in the step that saves its crop.
C1_StatusChangesHaveCause ==
  [][\A id \in JobIds(jobs) \cap JobIds(jobs') :
       JobOf(jobs, id).status # JobOf(jobs', id).status
         => \/ /\ JobOf(jobs', id).status = PROCESSING
               /\ \E r \in inflight' \ inflight : r.job = id
            \/ /\ JobOf(jobs', id).status = COMPLETED
               /\ \E r \in inflight \ inflight' :
                    /\ r.job = id
                    /\ last' = Event(last'.op, r, last'.result)
                    /\ last'.op = "resolved" \/ (last'.op = "rejected" /\ r.kind = "remix")
            \/ /\ JobOf(jobs', id).status = ERROR
               /\ \E r \in inflight \ inflight' :
                    r.job = id /\ r.kind = "generate" /\ last' = Event("rejected", r, last'.result)
            \/ /\ JobOf(jobs', id).status = IDLE
               /\ cropPending = id /\ cropPending' = 0]_vars

\* C1 witness: a job whose crop was saved while its request was pending is
\* IDLE with the request still in flight (PROCESSING->IDLE happened).
C1_Witness ==
  \E r \in inflight : HasJob(jobs, r.job) /\ JobOf(jobs, r.job).status = IDLE

\* C2 as stated: at most one request to the AI service is in flight.
C2_AtMostOneInFlight == Cardinality(inflight) <= 1

\* C3: a Process All run requests its jobs in list order, one at a time: the
\* requests issued so far are the first idx jobs of the batch in order, the
\* batch keeps the order of the job list, and each request after the first
\* is issued only when the run's previous request has settled and the
\* 500 ms timer set after it has fired.
C3_SequentialInOrder ==
  /\ [](batch.kind = "process" =>
          /\ batch.idx \in 1..Len(batch.list)
          /\ runLog = SeqIds(SubSeq(batch.list, 1, batch.idx))
          /\ batch.pc = "await" =>
               \E r \in RunRequests :
                 RunRequests = {r} /\ r.job = batch.list[batch.idx].id
          /\ batch.pc = "delay" => RunRequests = {} /\ batch.delay = ProcessDelayMs)
  /\ [][ProcessRunStarts =>
          \A a, b \in 1..Len(batch'.list) :
            a < b => FindJob(jobs, batch'.list[a].id) < FindJob(jobs, batch'.list[b].id)]_vars
  /\ [][ProcessRunIssues /\ ~ProcessRunStarts =>
          /\ batch.pc = "delay" /\ batch.delay = ProcessDelayMs
          /\ RunRequests = {}
          /\ batch'.idx = batch.idx + 1]_vars

\* C3 witness: the second request of a run of two jobs is in flight.
C3_Witness ==
  /\ batch.kind = "process" /\ batch.pc = "await" /\ batch.idx = 2
  /\ Cardinality(RunRequests) = 1

\* C4: the rejection of a job's generate request changes only that job, to
\* ERROR with a non-empty error message and nothing else; the job list and
\* every other job stay as they are; a run whose request it was goes on to
\* its delay, and the step after the delay requests the next job of the
\* batch.
C4_FailureIsolated ==
  /\ [][last'.op = "rejected" /\ last'.kind = "generate" =>
          /\ Len(jobs') = Len(jobs)
          /\ \A i \in 1..Len(jobs) :
               IF jobs[i].id = last'.job
               THEN /\ jobs'[i].status = ERROR
                    /\ jobs'[i].error # Undefined /\ jobs'[i].error # ""
                    /\ jobs'[i] = [jobs[i] EXCEPT !.status = ERROR, !.error = jobs'[i].error]
               ELSE jobs'[i] = jobs[i]
          /\ last'.owner = "batch" =>
               /\ isProcessing'
               /\ batch' = [batch EXCEPT !.pc = "delay", !.delay = ProcessDelayMs]]_vars
  /\ [][batch.kind = "process" /\ batch.pc = "delay" /\ batch.idx < Len(batch.list)
          /\ batch' # batch =>
          /\ batch'.pc = "await" /\ batch'.idx = batch.idx + 1
          /\ \E r \in inflight' \ inflight :
               r.owner = "batch" /\ r.job = batch.list[batch.idx + 1].id]_vars

\* C4 witness: the first job of a run failed, the other job of the list is
\* untouched by it, and the run has requested its second job.
C4_Witness ==
  /\ batch.kind = "process" /\ batch.pc = "await" /\ batch.idx = 2
  /\ HasJob(jobs, batch.list[1].id)
  /\ JobOf(jobs, batch.list[1].id).status = ERROR
  /\ JobOf(jobs, batch.list[1].id).error = ProcessingFailed

C6_RemovedJobSkipped ==
  [][ProcessRunIssues => HasJob(jobs, runLog'[Len(runLog')])]_vars

\* ------------------------------------------------------------- export properties
Exported ==
  SelectSeq(jobs, LAMBDA j : j.status = COMPLETED /\ j.resultHtml # Undefined
                              /\ j.resultHtml # "")

Indices(doc, tags) == {i \in 1..Len(doc) : doc[i].tag \in tags}

SectionOpen == {"page-wrapper", "WordSection"}
SectionClose == {"/page-wrapper", "/WordSection"}
HeaderTags == {"header-web", "header-word"}

Contents(doc) ==
  LET c == SelectSeq(doc, LAMBDA piece : piece.tag = "resultHtml")
  IN [i \in 1..Len(c) |-> c[i].html]

\* every section is opened, holds one resultHtml and is closed before the
\* next one opens
WellSectioned(doc) ==
  /\ Cardinality(Indices(doc, SectionOpen)) = Cardinality(Indices(doc, SectionClose))
  /\ \A o \in Indices(doc, SectionOpen) :
       \E c \in Indices(doc, SectionClose) :
         /\ o < c
         /\ Indices(doc, SectionOpen \cup SectionClose) \cap (o + 1)..(c - 1) = {}
         /\ Cardinality(Indices(doc, {"resultHtml"}) \cap (o + 1)..(c - 1)) = 1
  /\ \A i \in Indices(doc, {"resultHtml"}) :
       \E o \in Indices(doc, SectionOpen), c \in Indices(doc, SectionClose) :
         o < i /\ i < c /\ Indices(doc, SectionOpen \cup SectionClose) \cap (o + 1)..(c - 1) = {}

\* C7: after an export click, the file holds one section per job that is
\* COMPLETED with a non-empty resultHtml, with their resultHtml in job-list
\* order and nothing from any other job; with no such job no file is made.
C7_ExportsCompletedJobs ==
  download.handler # "none" =>
    IF Exported = <<>>
    THEN ~download.produced /\ download.doc = <<>>
    ELSE /\ download.produced
         /\ Contents(download.doc) = [i \in 1..Len(Exported) |-> Exported[i].resultHtml]
         /\ Cardinality(Indices(download.doc, SectionOpen)) = Len(Exported)
         /\ WellSectioned(download.doc)

\* C7 witness: a file with two sections of different content was made from a
\* list of three jobs, one of which is COMPLETED with an empty resultHtml.
C7_Witness ==
  /\ download.produced /\ Len(jobs) = 3 /\ Len(Exported) = 2
  /\ Exported[1].resultHtml # Exported[2].resultHtml
  /\ \E i \in 1..Len(jobs) : jobs[i].status = COMPLETED /\ jobs[i].resultHtml = ""

\* C8: a Word file of n sections has n-1 Word page breaks, each between a
\* section's end and the next section's start and none after the last
\* section; a Printable HTML file of n pages has n page-break elements, one
\* right after every page.
C8_PageBreaks ==
  download.produced =>
    LET doc == download.doc
        n == Cardinality(Indices(doc, SectionOpen))
    IN /\ n = Len(Exported) /\ n >= 1
       /\ IF download.handler = "handleDownloadWord"
          THEN /\ Cardinality(Indices(doc, {"wordPageBreak"})) = n - 1
               /\ Indices(doc, {"page-break"}) = {}
               /\ \A b \in Indices(doc, {"wordPageBreak"}) :
                    doc[b - 1].tag = "/WordSection" /\ doc[b + 1].tag = "WordSection"
               /\ doc[Len(doc) - 1].tag = "/WordSection"
          ELSE /\ Cardinality(Indices(doc, {"page-break"})) = n
               /\ Indices(doc, {"wordPageBreak"}) = {}
               /\ \A c \in Indices(doc, SectionClose) : doc[c + 1].tag = "page-break"

\* C8 witness: a Word file of three sections.
C8_Witness ==
  /\ download.produced /\ download.handler = "handleDownloadWord"
  /\ Cardinality(Indices(download.doc, SectionOpen)) = 3
  /\ Cardinality(Indices(download.doc, {"wordPageBreak"})) = 2

\* C9: a file made by an export click holds the header block of the current
\* header settings exactly once, as the first piece of its first section, in
\* the layout of its format.
C9_HeaderOnce ==
  [][download' # download /\ download'.produced =>
       LET doc == download'.doc
       IN /\ Indices(doc, HeaderTags) = {3}
          /\ doc[2].tag \in SectionOpen
          /\ \A o \in Indices(doc, SectionOpen) : o >= 2
          /\ doc[3].config = headerConfig
          /\ doc[3].tag = IF download'.handler = "handleDownloadWord"
                          THEN "header-word" ELSE "header-web"]_vars

\* C9 witness: a file of three sections made after the header settings were
\* changed carries the changed header.
C9_Witness ==
  /\ download.produced /\ Cardinality(Indices(download.doc, SectionOpen)) = 3
  /\ headerConfig # DEFAULT_HEADER_CONFIG
  /\ download.doc[3].tag \in HeaderTags /\ download.doc[3].config = headerConfig

\* ------------------------------------------------------------- remix properties
RemixRunStarts == batch.kind = "none" /\ batch'.kind = "remix"

OnlyJobChanged(id, changed(_)) ==
  /\ Len(jobs') = Len(jobs)
  /\ \A i \in 1..Len(jobs) :
       jobs'[i] = IF jobs[i].id = id THEN changed(jobs[i]) ELSE jobs[i]

\* C10: the batch of a Remix run is the jobs COMPLETED with a non-empty
\* resultHtml at the click, and every remix request is for the job of the
\* batch the run is at, with that job's resultHtml of the click.  Issuing it
\* changes only that job's status; its resolution changes only that job, to
\* COMPLETED with the returned html; its rejection changes only that job's
\* status, to COMPLETED, and leaves resultHtml and error as they were.
C10_RemixKeepsResult ==
  /\ [][RemixRunStarts =>
          SeqIds(batch'.list) = SeqIds(Exported)]_vars
  /\ [](\A r \in inflight : r.kind = "remix" =>
          /\ batch.kind = "remix" /\ batch.pc = "await"
          /\ r.job = batch.list[batch.idx].id
          /\ r.html = batch.list[batch.idx].resultHtml
          /\ r.html # Undefined /\ r.html # "")
  /\ [][\A r \in inflight' \ inflight : r.kind = "remix" =>
          OnlyJobChanged(r.job, LAMBDA j : [j EXCEPT !.status = PROCESSING])]_vars
  /\ [][last'.op = "resolved" /\ last'.kind = "remix" =>
          OnlyJobChanged(last'.job,
             LAMBDA j : [j EXCEPT !.status = COMPLETED, !.resultHtml = last'.result])]_vars
  /\ [][last'.op = "rejected" /\ last'.kind = "remix" =>
          OnlyJobChanged(last'.job, LAMBDA j : [j EXCEPT !.status = COMPLETED])]_vars

\* C10 witness: a remix was rejected and its job is COMPLETED again with the
\* resultHtml it had.
C10_Witness ==
  /\ last.op = "rejected" /\ last.kind = "remix"
  /\ HasJob(jobs, last.job)
  /\ JobOf(jobs, last.job).status = COMPLETED
  /\ JobOf(jobs, last.job).resultHtml = batch.list[batch.idx].resultHtml

\* ------------------------------------------------------------- crop properties
Cropped(j) ==
  [j EXCEPT !.file = j.file + 1, !.status = IDLE,
            !.resultHtml = Undefined, !.error = Undefined]

\* C11 as stated: the step that saves a crop replaces the file (and with it
\* the preview URL) of exactly the job being cropped, sets it IDLE without
\* resultHtml and error, leaves every other job and the list order as they
\* are and clears the cropping selection; when no job is being cropped it
\* changes nothing.
C11_CropSaveFrame ==
  [][last'.op = "cropSaved" =>
       IF croppingJobId # 0
       THEN /\ OnlyJobChanged(croppingJobId, Cropped)
            /\ croppingJobId' = 0
       ELSE UNCHANGED <<jobs, croppingJobId>>]_vars

\* ------------------------------------------------------------- reload
\* mutant of MergeConfig: the spread the other way round, defaults last
MergeConfigDefaultsLast(defaults, saved) == defaults

\* { ...DEFAULT_HEADER_CONFIG, ...JSON.parse(savedConfig) }: the stored item
\* is the JSON text of a record of strings, which parses back to that record
MergeConfig(defaults, saved) ==
  [k \in DOMAIN defaults |-> IF k \in DOMAIN saved THEN saved[k] ELSE defaults[k]]

ReloadEvent ==
  [op |-> "reload", kind |-> "none", job |-> 0, owner |-> "none", result |-> ""]

\* the page is reloaded: every useState starts from its initial value, the
\* pending promises and timers of the old page are gone, and the mount effect
\* reads localStorage, which the browser keeps
Reload ==
  /\ jobs' = <<>>
  /\ isProcessing' = FALSE
  /\ isRemixing' = FALSE
  /\ croppingJobId' = 0
  /\ cropPending' = 0
  /\ inflight' = {}
  /\ batch' = NoBatch
  /\ runLog' = <<>>
  /\ download' = NoDownload
  /\ headerConfig' = IF localStorage = NoItem
                     THEN DEFAULT_HEADER_CONFIG
                     ELSE MergeConfig(DEFAULT_HEADER_CONFIG, localStorage)
  /\ last' = ReloadEvent
  /\ UNCHANGED <<nextId, localStorage, serviceVars, previewVars>>

NextReload ==
  \/ Next
  \/ \E value \in SubjectTitles : handleConfigChange("subjectTitle", value)
  \/ Reload

SpecReload == Init /\ [][NextReload]_vars

\* C12 as stated: after a reload the job list, the processing flags and the
\* header configuration are back to their initial defaults.
C12_NothingSurvivesReload ==
  [][last'.op = "reload" =>
       /\ jobs' = <<>>
       /\ ~isProcessing' /\ ~isRemixing'
       /\ headerConfig' = DEFAULT_HEADER_CONFIG]_vars

\* C12 amended: a reload puts the job list, the processing flags and the
\* cropping selection back to their initial values and drops every pending
\* request and run, but the header configuration survives it: it is the one
\* the last header-settings change stored, and the default only when none was
\* ever stored.
C12_OnlyHeaderSurvivesReload ==
  /\ [](headerConfig = IF localStorage = NoItem THEN DEFAULT_HEADER_CONFIG
                       ELSE localStorage)
  /\ [][last'.op = "reload" =>
          /\ jobs' = <<>>
          /\ ~isProcessing' /\ ~isRemixing'
          /\ croppingJobId' = 0
          /\ inflight' = {} /\ batch' = NoBatch
          /\ localStorage' = localStorage
          /\ headerConfig' = headerConfig]_vars

\* C12 witness: after jobs were added and the subject title was changed, the
\* page was reloaded: the list is empty and the changed header is back.
C12_Witness ==
  /\ last.op = "reload" /\ nextId > 1
  /\ jobs = <<>> /\ ~isProcessing /\ ~isRemixing
  /\ headerConfig # DEFAULT_HEADER_CONFIG

\* ------------------------------------------------------------- service
\* generateHtmlFromImage step by step, for one job.  The job-list model
\* above treats a call as a request that resolves with some html or rejects
\* with some message; here the call is traced: getApiKey, the read and
\* resize of the file (fileToGenerativePart / optimizeImage), the request to
\* the AI service, the clean-up of its text and the mapping of its failure.
MaxEnvSet == 2        \* environment variables that are set at the same time

MAX_DIM == 1536

\* widths and heights of the pasted images
SourceSides == {1, 2, 1024, 1535, 1536, 1537, 3072, 3073, 4000}

\* mutant of isValid: the length test is missing
isValidAnyString(key) == key # Undefined

\* typeof key === 'string' && key.length > 0
isValid(key) == key # Undefined /\ Len(key) > 0

ValidNames(e) == {n \in 1..Len(EnvNames) : isValid(e[n])}

HasApiKey(e) == ValidNames(e) # {}

\* the first valid variable in the order of the checks
getApiKey(e) == e[CHOOSE n \in ValidNames(e) : \A m \in ValidNames(e) : n <= m]

ApiKeyMissing ==
  "API Key Missing. In Vercel Settings, try naming your variable 'VITE_API_KEY' (or 'REACT_APP_API_KEY') and then REDEPLOY the project."

InvalidApiKey == "Invalid API Key. Please check your Vercel Environment Variables."

TooManyRequests == "Too many requests (429). Please Retry."

FailedToReadFile == "Failed to read file: [object ProgressEvent]"

\* Math.round(n / d) for n >= 0 and d > 0
Round(n, d) == (2 * n + d) \div (2 * d)

\* the canvas size optimizeImage draws the image of size width x height on
optimizeImage(width, height) ==
  IF width > MAX_DIM \/ height > MAX_DIM
  THEN IF width > height
       THEN <<MAX_DIM, Round(height * MAX_DIM, width)>>
       ELSE <<Round(width * MAX_DIM, height), MAX_DIM>>
  ELSE <<width, height>>

\* String.prototype.includes
Includes(s, pat) ==
  \E i \in 1..(Len(s) - Len(pat) + 1) : SubSeq(s, i, i + Len(pat) - 1) = pat

\* s.replace(/pat/g, '')
RECURSIVE RemoveAll(_, _)
RemoveAll(s, pat) ==
  IF Len(s) < Len(pat) THEN s
  ELSE IF SubSeq(s, 1, Len(pat)) = pat
       THEN RemoveAll(SubSeq(s, Len(pat) + 1, Len(s)), pat)
       ELSE SubSeq(s, 1, 1) \o RemoveAll(SubSeq(s, 2, Len(s)), pat)

\* String.prototype.trim
RECURSIVE Trim(_)
Trim(s) ==
  IF s = "" THEN s
  ELSE IF SubSeq(s, 1, 1) = " " THEN Trim(SubSeq(s, 2, Len(s)))
  ELSE IF SubSeq(s, Len(s), Len(s)) = " " THEN Trim(SubSeq(s, 1, Len(s) - 1))
  ELSE s

\* the markdown code fence (three backquotes), written with a stand-in
\* character
Fence == "^^^"

\* what response.text can be
ResponseTexts == {Undefined, "<p>a</p>", Fence \o "html <p>a</p> " \o Fence}

\* (response.text || "").replace(/(fence)html/g, '').replace(/(fence)/g, '').trim()
CleanText(text) ==
  Trim(RemoveAll(RemoveAll(IF Truthy(text) THEN text ELSE "", Fence \o "html"), Fence))

\* what the SDK call can throw: an Error (String(error) is "Error: " and its
\* message, or "Error" without one) or any other value
ThrownValues ==
  {[message |-> "API key not valid. Please pass a valid API key.", string |-> "Error: API key not valid."],
   [message |-> "got status: 403 Forbidden", string |-> "Error: 403"],
   [message |-> "got status: 429 Too Many Requests", string |-> "Error: 429"],
   [message |-> "API key quota exceeded (429)", string |-> "Error: 429"],
   [message |-> "429, then 403", string |-> "Error: 429, then 403"],
   [message |-> "API Key missing in request (40 3)", string |-> "Error: API Key"],
   [message |-> "Failed to fetch", string |-> "TypeError: Failed to fetch"],
   [message |-> "", string |-> "Error"],
   [message |-> Undefined, string |-> "429"],
   [message |-> Undefined, string |-> ""]}

\* error.message || String(error)
UnderlyingMessage(error) ==
  IF Truthy(error.message) THEN error.message ELSE error.string

\* mutant of MapError: the 429 test first
MapError429First(message) ==
  IF Includes(message, "429") THEN TooManyRequests
  ELSE IF Includes(message, "API key") \/ Includes(message, "403") THEN InvalidApiKey
  ELSE message

\* the catch of generateHtmlFromImage: the message of the Error it throws
MapError(message) ==
  IF Includes(message, "API key") \/ Includes(message, "403") THEN InvalidApiKey
  ELSE IF Includes(message, "429") THEN TooManyRequests
  ELSE message

serviceFrame ==
  UNCHANGED <<isProcessing, isRemixing, croppingJobId, cropPending, nextId,
              inflight, batch, runLog, last, exportVars, env, previewVars>>

\* processJob(job) up to the first await that waits: the job is PROCESSING
\* and generateHtmlFromImage runs getApiKey; without a key it throws, which
\* processJob catches before any other handler runs; with a key
\* fileToGenerativePart has started to read the file
processJob(id) ==
  /\ call.pc \in {"idle", "returned", "thrown"}
  /\ HasJob(jobs, id)
  /\ NeedsProcessing(JobOf(jobs, id))
  /\ IF HasApiKey(env)
     THEN /\ jobs' = SetProcessing(jobs, id)
          /\ call' = [NoCall EXCEPT !.pc = "optimize", !.job = id,
                                    !.apiKey = getApiKey(env), !.fileReads = 1]
     ELSE /\ jobs' = SetError(SetProcessing(jobs, id), id, ApiKeyMissing)
          /\ call' = [NoCall EXCEPT !.pc = "thrown", !.job = id,
                                    !.outcome = ApiKeyMissing]
  /\ serviceFrame

\* optimizeImage resolved for an image of width x height: the resized JPEG
\* goes into the request to the AI service
optimizeImageResolved(width, height) ==
  /\ call.pc = "optimize"
  /\ call' = [call EXCEPT !.pc = "generate", !.optimized = TRUE,
                          !.source = <<width, height>>,
                          !.sent = optimizeImage(width, height),
                          !.requests = call.requests + 1]
  /\ UNCHANGED jobs
  /\ serviceFrame

\* optimizeImage rejected: fileToGenerativePart reads the file again, as is
optimizeImageRejected ==
  /\ call.pc = "optimize"
  /\ call' = [call EXCEPT !.pc = "fallback", !.fileReads = call.fileReads + 1]
  /\ UNCHANGED jobs
  /\ serviceFrame

fallbackResolved ==
  /\ call.pc = "fallback"
  /\ call' = [call EXCEPT !.pc = "generate", !.requests = call.requests + 1]
  /\ UNCHANGED jobs
  /\ serviceFrame

\* the call threw `error` inside its try: the catch maps the message, and
\* the catch of processJob puts it on the job
callFailed(error) ==
  LET message == UnderlyingMessage(error)
  IN /\ call' = [call EXCEPT !.pc = "thrown", !.source = <<0, 0>>, !.sent = <<0, 0>>,
                             !.underlying = message, !.outcome = MapError(message)]
     /\ jobs' = SetError(jobs, call.job, MapError(message))
     /\ serviceFrame

fallbackRejected ==
  /\ call.pc = "fallback"
  /\ callFailed([message |-> FailedToReadFile, string |-> "Error: " \o FailedToReadFile])

generateContentRejected(error) ==
  /\ call.pc = "generate"
  /\ callFailed(error)

generateContentResolved(text) ==
  /\ call.pc = "generate"
  /\ call' = [call EXCEPT !.pc = "returned", !.source = <<0, 0>>, !.sent = <<0, 0>>,
                          !.outcome = CleanText(text)]
  /\ jobs' = SetCompleted(jobs, call.job, CleanText(text))
  /\ serviceFrame

\* the builds: at most MaxEnvSet of the variables are set, to an empty
\* string or to a key
EnvConfigs ==
  {e \in [1..Len(EnvNames) -> {Undefined, "", ApiKey}] :
     Cardinality({n \in 1..Len(EnvNames) : e[n] # Undefined}) <= MaxEnvSet}

\* one pasted image, in any build
InitService ==
  /\ jobs = <<NewJob(1)>>
  /\ nextId = 2
  /\ isProcessing = FALSE
  /\ isRemixing = FALSE
  /\ croppingJobId = 0
  /\ cropPending = 0
  /\ inflight = {}
  /\ batch = NoBatch
  /\ runLog = <<>>
  /\ last = NoEvent
  /\ headerConfig = DEFAULT_HEADER_CONFIG
  /\ localStorage = NoItem
  /\ download = NoDownload
  /\ env \in EnvConfigs
  /\ call = NoCall
  /\ preview = NoPreview
  /\ onSave = NoSaves

NextService ==
  \/ \E id \in 1..MaxJobs : processJob(id)
  \/ \E width \in SourceSides, height \in SourceSides : optimizeImageResolved(width, height)
  \/ optimizeImageRejected
  \/ fallbackResolved
  \/ fallbackRejected
  \/ \E error \in ThrownValues : generateContentRejected(error)
  \/ \E text \in ResponseTexts : generateContentResolved(text)

SpecService == InitService /\ [][NextService]_vars

\* C13: in a build where none of the checked environment variables holds a
\* non-empty string, every generateHtmlFromImage call throws the 'API Key
\* Missing' error with no file read started and no request issued, and the
\* job it was called for is in ERROR with that message.
C13_KeyMissing ==
  (\A n \in 1..Len(EnvNames) : env[n] = Undefined \/ env[n] = "") =>
    /\ call.pc \in {"idle", "thrown"}
    /\ call.fileReads = 0 /\ call.requests = 0
    /\ call.pc = "thrown" =>
         /\ call.outcome = ApiKeyMissing
         /\ Includes(call.outcome, "API Key Missing")
         /\ JobOf(jobs, call.job).status = ERROR
         /\ JobOf(jobs, call.job).error = ApiKeyMissing
         /\ JobOf(jobs, call.job).resultHtml = Undefined

\* C13 witness: a build whose only variable that is set is an empty
\* string, and the job has failed with the message.
C13_Witness ==
  /\ \E n \in 1..Len(EnvNames) : env[n] = ""
  /\ call.pc = "thrown" /\ call.outcome = ApiKeyMissing
  /\ JobOf(jobs, call.job).status = ERROR

\* C14: a call that fails inside its try throws one message: 'Invalid API
\* Key. ...' when the underlying message contains 'API key' or '403',
\* otherwise 'Too many requests (429). Please Retry.' when it contains
\* '429', otherwise the underlying message itself; the job shows the thrown
\* message as its error (processJob replaces an empty one, see C4).
C14_ErrorMessageMapped ==
  call.pc = "thrown" /\ call.underlying # Undefined =>
    LET u == call.underlying
        first == Includes(u, "API key") \/ Includes(u, "403")
        second == Includes(u, "429")
    IN /\ first => call.outcome = InvalidApiKey
       /\ ~first /\ second => call.outcome = TooManyRequests
       /\ ~first /\ ~second => call.outcome = u
       /\ JobOf(jobs, call.job).status = ERROR
       /\ call.outcome # "" => JobOf(jobs, call.job).error = call.outcome

\* C14 witness: the underlying message holds both 'API key' and '429', and
\* the job shows the first rule's message.
C14_Witness ==
  /\ call.pc = "thrown" /\ call.underlying # Undefined
  /\ Includes(call.underlying, "API key") /\ Includes(call.underlying, "429")
  /\ JobOf(jobs, call.job).error = InvalidApiKey

\* C15 as stated: the canvas optimizeImage draws on is at most 1536 and at
\* least 1 on both sides; an image that fits in 1536 x 1536 keeps its size,
\* otherwise the larger side becomes 1536 and the other side the
\* proportionally scaled value rounded to the nearest integer.
C15_OptimizedDimensions ==
  call.pc = "generate" /\ call.optimized =>
    LET w == call.source[1]
        h == call.source[2]
        ow == call.sent[1]
        oh == call.sent[2]
        Nearest(k, n, d) == 2 * k * d - 2 * n <= d /\ 2 * n - 2 * k * d <= d
    IN /\ w >= 1 /\ h >= 1
       /\ ow <= 1536 /\ oh <= 1536
       /\ ow >= 1 /\ oh >= 1
       /\ IF w <= 1536 /\ h <= 1536
          THEN ow = w /\ oh = h
          ELSE IF w >= h
               THEN ow = 1536 /\ Nearest(oh, h * 1536, w)
               ELSE oh = 1536 /\ Nearest(ow, w * 1536, h)

\* ------------------------------------------------------------- preview editor
\* PreviewModal of src/components/PreviewModal.tsx, by itself: its props are
\* the html and the id of a job and the callbacks onClose and onSave.
MaxSaves == 2         \* clicks on "Save Changes" in one editor

\* positions of the margin sliders (type="range" min="0" max="50")
MarginValues == {0, 10, 50}

Sides == {"top", "right", "bottom", "left"}

\* the resultHtml the editor is opened with
PreviewedHtml == {"<p>a</p>", "<p>b</p>"}

\* contentRef.current.innerHTML after the user typed or used the toolbar
EditedContents == {"", "<p>a</p>", "<p><b>a</b> c</p>"}

PreviewEvent(op) ==
  [op |-> op, kind |-> "preview", job |-> preview.jobId, owner |-> "none", result |-> ""]

\* mutant of WrapperDiv: the padding in the order top, bottom, left, right
WrapperDivSidesSwapped(margins, editedContent) ==
  [tag |-> "div",
   padding |-> <<margins.top, margins.bottom, margins.left, margins.right>>,
   width |-> "100%", boxSizing |-> "border-box", inner |-> editedContent]

\* <div style="padding: Tmm Rmm Bmm Lmm; width: 100%; box-sizing: border-box;">
\* editedContent </div>
WrapperDiv(margins, editedContent) ==
  [tag |-> "div",
   padding |-> <<margins.top, margins.right, margins.bottom, margins.left>>,
   width |-> "100%", boxSizing |-> "border-box", inner |-> editedContent]

previewFrame ==
  UNCHANGED <<jobs, isProcessing, isRemixing, croppingJobId, cropPending, nextId,
              inflight, batch, runLog, exportVars, serviceVars>>

\* typing in the contentEditable div, or a toolbar button (execCommand)
executeCommand(content) ==
  /\ preview.open
  /\ preview' = [preview EXCEPT !.content = content]
  /\ onSave' = [NoSaves EXCEPT !.calls = onSave.calls]
  /\ last' = PreviewEvent("executeCommand")
  /\ previewFrame

\* a margin slider moved
setMargins(side, value) ==
  /\ preview.open
  /\ preview' = [preview EXCEPT !.margins[side] = value]
  /\ onSave' = [NoSaves EXCEPT !.calls = onSave.calls]
  /\ last' = PreviewEvent("setMargins")
  /\ previewFrame

\* PreviewModal.handleSave: "Save Changes"
PreviewModalSave ==
  /\ preview.open
  /\ onSave.calls < MaxSaves
  /\ preview' = [preview EXCEPT !.isSaving = TRUE]
  /\ onSave' = [calls |-> onSave.calls + 1, id |-> preview.jobId,
                newHtml |-> WrapperDiv(preview.margins, preview.content)]
  /\ last' = PreviewEvent("handleSave")
  /\ previewFrame

\* setTimeout(() => setIsSaving(false), 500) of a save fired
PreviewModalSaved ==
  /\ preview.open
  /\ preview.isSaving
  /\ preview' = [preview EXCEPT !.isSaving = FALSE]
  /\ onSave' = [NoSaves EXCEPT !.calls = onSave.calls]
  /\ last' = PreviewEvent("setIsSaving")
  /\ previewFrame

\* the X button: onClose, and the parent unmounts the editor
PreviewModalClose ==
  /\ preview.open
  /\ preview' = NoPreview
  /\ onSave' = [NoSaves EXCEPT !.calls = onSave.calls]
  /\ last' = PreviewEvent("onClose")
  /\ previewFrame

\* an editor just mounted for some job: the content is the job's html
InitPreview ==
  /\ \E n \in 1..MaxJobs, shapes \in [1..MaxJobs -> PreviewedHtml], id \in 1..MaxJobs :
       /\ id <= n
       /\ jobs = [i \in 1..n |-> ShapedJob(i, [status |-> COMPLETED, resultHtml |-> shapes[i]])]
       /\ nextId = n + 1
       /\ preview = [NoPreview EXCEPT !.open = TRUE, !.jobId = id,
                                      !.content = jobs[id].resultHtml]
  /\ isProcessing = FALSE
  /\ isRemixing = FALSE
  /\ croppingJobId = 0
  /\ cropPending = 0
  /\ inflight = {}
  /\ batch = NoBatch
  /\ runLog = <<>>
  /\ last = NoEvent
  /\ headerConfig = DEFAULT_HEADER_CONFIG
  /\ localStorage = NoItem
  /\ download = NoDownload
  /\ env = DeployedEnv
  /\ call = NoCall
  /\ onSave = NoSaves

NextPreview ==
  \/ \E content \in EditedContents : executeCommand(content)
  \/ \E side \in Sides, value \in MarginValues : setMargins(side, value)
  \/ PreviewModalSave
  \/ PreviewModalSaved
  \/ PreviewModalClose

SpecPreview == InitPreview /\ [][NextPreview]_vars

\* C16: every click on "Save Changes" calls onSave exactly once, with the id
\* of the editor's job and the edited content wrapped in a div whose padding
\* is the current top, right, bottom and left margins; typing, toolbar
\* commands, margin sliders, the end of the "Saved!" label and closing the
\* editor call nothing, and onSave is called by nothing else.
C16_SaveCallsOnSaveOnce ==
  /\ [][last'.op = "handleSave" /\ last'.kind = "preview" =>
          /\ onSave'.calls = onSave.calls + 1
          /\ onSave'.id = preview.jobId
          /\ onSave'.newHtml.tag = "div"
          /\ onSave'.newHtml.padding =
               <<preview.margins.top, preview.margins.right,
                 preview.margins.bottom, preview.margins.left>>
          /\ onSave'.newHtml.inner = preview.content
          /\ preview'.content = preview.content /\ preview'.margins = preview.margins]_vars
  /\ [][last'.kind = "preview" /\ last'.op # "handleSave" =>
          /\ onSave'.calls = onSave.calls /\ onSave'.newHtml = Undefined
          /\ jobs' = jobs]_vars
  /\ [][onSave'.calls # onSave.calls => last'.op = "handleSave"]_vars

\* C16 witness: the second save of an editor whose content was edited and
\* whose four margins differ has just called onSave.
C16_Witness ==
  /\ last.op = "handleSave" /\ onSave.calls = 2
  /\ onSave.id = preview.jobId
  /\ onSave.newHtml.inner # JobOf(jobs, preview.jobId).resultHtml
  /\ onSave.newHtml.padding = <<0, 10, 50, 0>>

\* ------------------------------------------------------------- liveness
\* the request in slot `slot` settles: the promise of generateHtmlFromImage
\* or remixHtmlContent resolves or rejects
Settles(slot) ==
  \E r \in inflight :
    /\ r.slot = slot
    /\ \/ \E html \in GeneratedHtml : generateResolved(r, html)
       \/ \E message \in ThrownMessages : generateRejected(r, message)
       \/ \E html \in RemixedHtml : remixResolved(r, html)
       \/ remixRejected(r)

\* every pending request settles, and a timer that is due fires
Fairness ==
  /\ \A slot \in 1..MaxInflight : WF_vars(Settles(slot))
  /\ WF_vars(delayElapsed)

SpecLive == Init /\ [][Next]_vars /\ Fairness

IsProcessingJob(id) == HasJob(jobs, id) /\ JobOf(jobs, id).status = PROCESSING

\* C17: if every request settles, a job that is PROCESSING is later
\* COMPLETED or ERROR, or has been removed; and a job is PROCESSING only
\* while a request for it is pending.
C17_ProcessingEnds ==
  /\ \A id \in 1..MaxJobs :
       IsProcessingJob(id) ~>
         \/ ~HasJob(jobs, id)
         \/ JobOf(jobs, id).status \in {COMPLETED, ERROR}
  /\ [](\A id \in 1..MaxJobs :
          IsProcessingJob(id) => \E r \in inflight : r.job = id)

\* C17 witness: a job that a Remix run had set to PROCESSING is COMPLETED
\* again, next to a job whose retried request was rejected.
C17_Witness ==
  /\ last.op = "rejected" /\ last.kind = "remix"
  /\ HasJob(jobs, last.job)
  /\ JobOf(jobs, last.job).status = COMPLETED
  /\ \E i \in 1..Len(jobs) : jobs[i].status = ERROR

\* C18: if every request settles and every timer fires, a Process All run
\* ends with isProcessing FALSE and a Remix run ends with isRemixing FALSE,
\* whatever its requests did; a flag is TRUE exactly while its run is under
\* way; and a click that finds an empty batch leaves the flag FALSE, starts
\* no run and issues no request.
C18_RunsTerminate ==
  /\ isProcessing ~> ~isProcessing
  /\ isRemixing ~> ~isRemixing
  /\ []((isProcessing <=> batch.kind = "process") /\ (isRemixing <=> batch.kind = "remix"))
  /\ [][batch.kind # "none" /\ batch'.kind = "none" =>
          /\ ~isProcessing' /\ ~isRemixing'
          /\ batch.pc = "delay" /\ batch.idx = Len(batch.list)
          /\ RunRequests = {}]_vars
  /\ [][last'.op = "handleProcessAll" /\ JobsToProcess(jobs) = <<>> =>
          ~isProcessing' /\ batch' = NoBatch /\ inflight' = inflight /\ jobs' = jobs]_vars
  /\ [][last'.op = "handleRemixAll" /\ CompletedJobs(jobs) = <<>> =>
          ~isRemixing' /\ batch' = NoBatch /\ inflight' = inflight /\ jobs' = jobs]_vars

\* C18 witness: a Process All run of two jobs has just ended, and both of
\* its requests had failed.
C18_Witness ==
  /\ last.op = "runEnded" /\ last.kind = "process"
  /\ ~isProcessing /\ batch = NoBatch
  /\ Len(jobs) = 2 /\ \A i \in 1..Len(jobs) : jobs[i].status = ERROR
====
